---- MODULE Spec2Model ----
(***************************************************************************)
(* A model of homework_bot (src/homework.py): the startup check of the     *)
(* credentials, the four helper functions and the poll loop of main().     *)
(*                                                                         *)
(* Python strings built by f-strings are modelled as the sequence of their *)
(* parts (literal pieces and formatted values), so that two messages are   *)
(* equal exactly when they are built from the same pieces.  The Russian    *)
(* literals of the source are transliterated to ASCII.                     *)
(***************************************************************************)
EXTENDS Integers, Sequences, FiniteSets, TLC

\* Longest homeworks list a response of the poll loop carries.
MaxLen == 2

RETRY_PERIOD == 600
ENDPOINT == "https://practicum.yandex.ru/api/user_api/homework_statuses/"

HOMEWORKS_KEY == "homeworks"
STATUS_KEY == "status"
HOMEWORK_NAME == "homework_name"
CURRENT_DATE == "current_date"

HOMEWORK_VERDICTS ==
    [approved |-> "Rabota proverena: revyueru vsyo ponravilos. Ura!",
     reviewing |-> "Rabota vzyata na proverku revyuerom.",
     rejected |-> "Rabota proverena: u revyuera est zamechaniya."]

\* http.HTTPStatus members the code names.
HTTP_OK == 200
HTTP_BAD_REQUEST == 400
HTTP_UNAUTHORIZED == 401
HTTP_FORBIDDEN == 403

(***************************************************************************)
(* Python values.                                                          *)
(***************************************************************************)

\* None where a str is expected: no parts at all (every str the program
\* builds has at least one part).
PyNone == <<>>

\* os.getenv of a variable that is not set.
Unset == "<unset>"

ENV_NAMES == <<"PRACTICUM_TOKEN", "TELEGRAM_TOKEN", "TELEGRAM_CHAT_ID">>

\* A JSON scalar or container standing where a status is expected.
JVal(type, s) == [type |-> type, s |-> s]
NoStatus == JVal("absent", "")

\* One element of the homeworks list, as json() decodes it.
HomeworkDict(keys, status, name) ==
    [type |-> "dict", keys |-> keys, status |-> status, homework_name |-> name]
HomeworkOther(type) ==
    [type |-> type, keys |-> {}, status |-> NoStatus, homework_name |-> ""]
HomeworkNone == HomeworkOther("NoneType")

\* The value under the homeworks key.
HwList(items) == [type |-> "list", items |-> items]
HwOther(type) == [type |-> type, items |-> <<>>]

\* The decoded body of a response.
BodyDict(keys, homeworks, current_date) ==
    [type |-> "dict", keys |-> keys, homeworks |-> homeworks,
     current_date |-> current_date]
BodyOther(type) ==
    [type |-> type, keys |-> {}, homeworks |-> HwOther("absent"),
     current_date |-> 0]
NoBody == BodyOther("absent")

\* What one requests.get does: it raises RequestException, or gives a
\* response with a status code and a body that json() decodes or does not.
NetFail == [transport_ok |-> FALSE, status_code |-> 0, is_json |-> FALSE,
            body |-> NoBody]
NetResponse(code, is_json, body) ==
    [transport_ok |-> TRUE, status_code |-> code, is_json |-> is_json,
     body |-> body]

\* repr() of the representative value of each JSON type.
Repr(type) ==
    CASE type = "NoneType" -> "None"
      [] type = "list" -> "[]"
      [] type = "str" -> "'text'"
      [] type = "int" -> "0"
      [] OTHER -> "{}"

\* repr(type(v)).
TypeRepr(type) == "<class '" \o type \o "'>"

Digit == <<"0", "1", "2", "3", "4", "5", "6", "7", "8", "9">>

\* repr() of a non-negative int.
RECURSIVE IntToStr(_)
IntToStr(n) ==
    IF n < 10 THEN Digit[n + 1]
    ELSE IntToStr(n \div 10) \o Digit[(n % 10) + 1]

(***************************************************************************)
(* Exceptions and results.                                                 *)
(***************************************************************************)

\* An exception is named by its class.  homework.py imports NoEnvVarError,
\* APIResponseJSONDecodeError and APIRequestException from exceptions, where
\* exceptions.py does not define them; they are named as homework.py names
\* them.
NoExc == "None"

\* The outcome of a call: an exception class with its message, or a value.
Raise(exc, args, novalue) == [exc |-> exc, args |-> args, value |-> novalue]
Return(value) == [exc |-> NoExc, args |-> <<>>, value |-> value]

\* str(error): KeyError shows the repr of its argument, the others the
\* argument itself.
StrOfError(exc, args) ==
    IF exc = "KeyError" THEN <<"'">> \o args \o <<"'">> ELSE args

(***************************************************************************)
(* check_tokens                                                            *)
(***************************************************************************)

\* ", ".join(names), as parts.
RECURSIVE Join(_)
Join(names) ==
    IF Len(names) = 0 THEN <<>>
    ELSE IF Len(names) = 1 THEN names
    ELSE <<Head(names), ", ">> \o Join(Tail(names))

\* As MissingVars, were the test `not var` instead of `var is None`.
MissingVarsFalsy(e) ==
    LET absent(name) == e[name] \in {Unset, ""}
    IN  SelectSeq(ENV_NAMES, absent)

\* The keys of missing_vars, in the order of env_vars.
MissingVars(e) ==
    LET absent(name) == e[name] = Unset
    IN  SelectSeq(ENV_NAMES, absent)

check_tokens(e) ==
    LET missing_vars == MissingVars(e)
    IN  IF Len(missing_vars) > 0
        THEN Raise("NoEnvVarError",
                   <<"Otsutstvuyut obyazatelnye peremennye okruzheniya: ">>
                   \o Join(missing_vars)
                   \o <<"\nProgramma prinuditelno ostanovlena.">>,
                   FALSE)
        ELSE Return(TRUE)

(***************************************************************************)
(* send_message                                                            *)
(***************************************************************************)

\* What bot.send_message does with a message: it delivers it, or raises a
\* telegram.error.TelegramError (a network error, a refused request).
TG_OUTCOMES == {"ok", "TelegramError"}

\* As send_message, were the TelegramError not caught.
send_message_raising(message, tg) ==
    IF tg = "ok"
    THEN Return([text |-> message, delivered |-> TRUE])
    ELSE Raise("TelegramError", <<"telegram error">>,
               [text |-> message, delivered |-> FALSE])

\* The call returns None whatever the bot did: the TelegramError is logged
\* and swallowed.  value tells whether the message went out.
send_message(message, tg) ==
    IF tg = "ok"
    THEN Return([text |-> message, delivered |-> TRUE])
    ELSE Return([text |-> message, delivered |-> FALSE])

(***************************************************************************)
(* get_api_answer                                                          *)
(***************************************************************************)

\* The status codes that mean the token was refused.
InvalidTokenOnly401 == {HTTP_UNAUTHORIZED}
InvalidTokenStatuses == {HTTP_UNAUTHORIZED, HTTP_FORBIDDEN}

\* net is what the network answers to the successive GETs of one call; the
\* function issues one GET and reads net[1] only.  gets counts the GETs.
get_api_answer(timestamp, net) ==
    LET func_name == "get_api_answer"
        response == net[1]
        out ==
          IF ~response.transport_ok
          THEN Raise("APIRequestException",
                     <<"Chto-to poshlo ne tak pri obraschenii k ", ENDPOINT,
                       " v funktsii ", func_name>>, NoBody)
          ELSE IF response.status_code \in InvalidTokenStatuses
          THEN Raise("InvalidPracticumTokenError",
                     <<"Nevalidnyi token dostupa k Yandeks-Praktikum v funktsii ",
                       func_name, ".">>, NoBody)
          ELSE IF response.status_code = HTTP_BAD_REQUEST
          THEN Raise("TimestampArgumentTypeError",
                     <<"Nekorrektnyi tip parametra ", "timestamp=",
                       IntToStr(timestamp), " v funktsii ", func_name>>, NoBody)
          ELSE IF response.status_code # HTTP_OK
          THEN Raise("APIUrlResponseError",
                     <<"Proizoshla oshibka s servisom ", ENDPOINT,
                       " v funktsii ", func_name, ".">>, NoBody)
          ELSE IF ~response.is_json
          THEN Raise("APIResponseJSONDecodeError",
                     <<"Oshibka preobrazovaniya otveta API v json v funktsii ",
                       func_name, ".">>, NoBody)
          ELSE Return(response.body)
    IN  [exc |-> out.exc, args |-> out.args, value |-> out.value, gets |-> 1]

(***************************************************************************)
(* check_response                                                          *)
(***************************************************************************)

\* As check_response, were the type of homeworks checked before the
\* current_date key.
check_response_type_first(response) ==
    LET func_name == "check_response"
    IN  IF response.type # "dict"
        THEN Raise("ResponseArgumentTypeError",
                   <<"Nekorrektnyi tip parametra ", "response=",
                     Repr(response.type), " funktsii ", func_name>>, NoBody)
        ELSE IF HOMEWORKS_KEY \notin response.keys
        THEN Raise("KeyError",
                   <<"Otsutstvuet klyuch ", HOMEWORKS_KEY,
                     " v otvete API v funktsii ", func_name, ".">>, NoBody)
        ELSE IF response.homeworks.type # "list"
        THEN Raise("HomeworksFieldTypeError",
                   <<"Tip dannyh polya homeworks (",
                     TypeRepr(response.homeworks.type),
                     ") ne sootvetstvuet ozhidaemomu (list)v funktsii ",
                     func_name, ".">>, NoBody)
        ELSE IF CURRENT_DATE \notin response.keys
        THEN Raise("KeyError",
                   <<"Otsutstvuet klyuch ", CURRENT_DATE,
                     " v otvete API v funktsii ", func_name, ".">>, NoBody)
        ELSE Return(response)

check_response(response) ==
    LET func_name == "check_response"
    IN  IF response.type # "dict"
        THEN Raise("ResponseArgumentTypeError",
                   <<"Nekorrektnyi tip parametra ", "response=",
                     Repr(response.type), " funktsii ", func_name>>, NoBody)
        ELSE IF HOMEWORKS_KEY \notin response.keys
        THEN Raise("KeyError",
                   <<"Otsutstvuet klyuch ", HOMEWORKS_KEY,
                     " v otvete API v funktsii ", func_name, ".">>, NoBody)
        ELSE IF CURRENT_DATE \notin response.keys
        THEN Raise("KeyError",
                   <<"Otsutstvuet klyuch ", CURRENT_DATE,
                     " v otvete API v funktsii ", func_name, ".">>, NoBody)
        ELSE IF response.homeworks.type # "list"
        THEN Raise("HomeworksFieldTypeError",
                   <<"Tip dannyh polya homeworks (",
                     TypeRepr(response.homeworks.type),
                     ") ne sootvetstvuet ozhidaemomu (list)v funktsii ",
                     func_name, ".">>, NoBody)
        ELSE Return(response)

(***************************************************************************)
(* parse_status                                                            *)
(***************************************************************************)

NOTHING_NEW == <<"Na revyu net novyh domashek.">>

\* Types whose values cannot be looked up in a dict: `x in d` raises
\* TypeError for them.
Unhashable == {"list", "dict"}

parse_status(homework) ==
    LET func_name == "parse_status"
    IN  IF homework.type = "NoneType"
        THEN Return(NOTHING_NEW)
        ELSE IF homework.type # "dict"
        THEN Raise("HomeworkArgumentTypeError",
                   <<"Nekorrektnyi tip parametra ", "homework=",
                     Repr(homework.type), " funktsii ", func_name, ".">>,
                   PyNone)
        ELSE IF STATUS_KEY \notin homework.keys
        THEN Raise("KeyError",
                   <<"Otsutstvuyut klyuch ", STATUS_KEY,
                     " v otvete API v funktsii ", func_name, ".">>, PyNone)
        ELSE IF homework.status.type \in Unhashable
        THEN Raise("TypeError",
                   <<"unhashable type: '", homework.status.type, "'">>, PyNone)
        ELSE IF ~(homework.status.type = "str"
                  /\ homework.status.s \in DOMAIN HOMEWORK_VERDICTS)
        THEN Raise("UnexpectedHomeworkStatusError",
                   <<"Neozhidannyi status domashnei raboty. v funktsii ",
                     func_name, ".">>, PyNone)
        ELSE IF HOMEWORK_NAME \notin homework.keys
        THEN Raise("KeyError",
                   <<"Otsutstvuyut klyuch ", HOMEWORK_NAME,
                     " v otvete APIv funktsii ", func_name, ".">>, PyNone)
        ELSE LET verdict == HOMEWORK_VERDICTS[homework.status.s]
             IN  Return(<<"Izmenilsya status proverki raboty \"",
                          homework.homework_name, "\". ", verdict>>)

(***************************************************************************)
(* main: the body of one cycle of the poll loop                            *)
(***************************************************************************)

NoError == [exc |-> NoExc, args |-> <<>>]

\* What the try block does with one answer of the network and one answer
\* of the bot: the exception it leaves to the handler (or none), the calls
\* of send_message it made, the timestamp it ends with, the GETs it issued.
TryOutcome(exc, args, calls, ts, gets) ==
    [exc |-> exc, args |-> args, sent |-> calls, timestamp |-> ts,
     gets |-> gets]

\* homeworks[-1]: the last element instead of the first.
LastHomework(homeworks) == homeworks[Len(homeworks)]

\* homeworks[0]
FirstHomework(homeworks) == homeworks[1]

TryBody(timestamp, response, tg) ==
    LET api_response == get_api_answer(timestamp, <<response>>)
    IN  IF api_response.exc # NoExc
        THEN TryOutcome(api_response.exc, api_response.args, <<>>, timestamp,
                        api_response.gets)
        ELSE
        LET checked_response == check_response(api_response.value)
        IN  IF checked_response.exc # NoExc
            THEN TryOutcome(checked_response.exc, checked_response.args, <<>>,
                            timestamp, api_response.gets)
            ELSE
            LET homeworks == checked_response.value.homeworks.items
            IN  IF Len(homeworks) > 0
                THEN
                  LET message == parse_status(FirstHomework(homeworks))
                  IN  IF message.exc # NoExc
                      THEN TryOutcome(message.exc, message.args, <<>>,
                                      timestamp, api_response.gets)
                      ELSE
                      LET call == send_message(message.value, tg)
                      IN  IF call.exc # NoExc
                          THEN TryOutcome(call.exc, call.args, <<call.value>>,
                                          timestamp, api_response.gets)
                          ELSE TryOutcome(NoExc, <<>>, <<call.value>>,
                                          checked_response.value.current_date,
                                          api_response.gets)
                ELSE TryOutcome(NoExc, <<>>, <<>>,
                                checked_response.value.current_date,
                                api_response.gets)

\* message = f'Sboi v rabote programmy: {error}'
ErrorMessage(error) ==
    <<"Sboi v rabote programmy: ">> \o StrOfError(error.exc, error.args)

\* As ExceptHandler, were the marker set when the message is sent.
ExceptHandlerMarking(error, previous, tg) ==
    LET message == ErrorMessage(error)
    IN  IF message # previous
        THEN LET call == send_message(message, tg)
             IN  [sent |-> <<call.value>>, previous |-> message,
                  exc |-> call.exc]
        ELSE [sent |-> <<>>, previous |-> message, exc |-> NoExc]

\* As ExceptHandler, were the error raised again at the end of the block.
ExceptHandlerReraising(error, previous, tg) ==
    LET message == ErrorMessage(error)
    IN  IF message # previous
        THEN LET call == send_message(message, tg)
             IN  [sent |-> <<call.value>>, previous |-> previous,
                  exc |-> error.exc]
        ELSE [sent |-> <<>>, previous |-> message, exc |-> error.exc]

\* The except block: the calls of send_message it makes, the marker it
\* leaves, and the exception that escapes it (none, as send_message
\* raises none).
ExceptHandler(error, previous, tg) ==
    LET message == ErrorMessage(error)
    IN  IF message # previous
        THEN LET call == send_message(message, tg)
             IN  [sent |-> <<call.value>>, previous |-> previous,
                  exc |-> call.exc]
        ELSE [sent |-> <<>>, previous |-> message, exc |-> NoExc]

(***************************************************************************)
(* Inputs                                                                  *)
(***************************************************************************)

\* All sequences over S of length at most n.
SeqsUpTo(S, n) == UNION {[1..k -> S] : k \in 0..n}

\* os.getenv gives None, an empty string or a value.
ENV_VALUES == {Unset, "", "secret"}
Environments == [{ENV_NAMES[i] : i \in 1..Len(ENV_NAMES)} -> ENV_VALUES]

\* int(time.time()) when main starts.
StartClocks == {1500, 1600}

\* current_date values the server reports.
ServerDates == {1000, 1001}

BothHomeworkKeys == {STATUS_KEY, HOMEWORK_NAME}
BothBodyKeys == {HOMEWORKS_KEY, CURRENT_DATE}

\* Elements of a homeworks list in the poll loop: two well-formed records,
\* one with a status outside the table, and a null.
LoopHomeworks ==
    {HomeworkDict(BothHomeworkKeys, JVal("str", "rejected"), "hw1"),
     HomeworkDict(BothHomeworkKeys, JVal("str", "approved"), "hw2"),
     HomeworkDict(BothHomeworkKeys, JVal("str", "unknown"), "hw1"),
     HomeworkNone}

LoopLists == SeqsUpTo(LoopHomeworks, MaxLen)

\* Decoded bodies: every shape check_response tells apart.
Bodies ==
    {BodyOther("list")}
    \cup {BodyDict({CURRENT_DATE}, HwOther("absent"), d) : d \in ServerDates}
    \cup {BodyDict({HOMEWORKS_KEY}, HwList(items), 0) : items \in LoopLists}
    \cup {BodyDict({HOMEWORKS_KEY}, HwOther("dict"), 0)}
    \cup {BodyDict({}, HwOther("absent"), 0)}
    \cup {BodyDict(BothBodyKeys, HwOther(t), d) :
            t \in {"dict", "NoneType"}, d \in ServerDates}
    \cup {BodyDict(BothBodyKeys, HwList(items), d) :
            items \in LoopLists, d \in ServerDates}

\* The bodies the poll loop is fed: one of each rejected shape and every
\* well-formed one.
LoopBodies ==
    {BodyOther("list"),
     BodyDict({CURRENT_DATE}, HwOther("absent"), 1000),
     BodyDict({HOMEWORKS_KEY}, HwList(<<>>), 0),
     BodyDict(BothBodyKeys, HwOther("dict"), 1000)}
    \cup {BodyDict(BothBodyKeys, HwList(items), d) :
            items \in LoopLists, d \in ServerDates}

ErrorCodes == {400, 401, 403, 404, 500}

LoopNet ==
    {NetFail}
    \cup {NetResponse(c, FALSE, NoBody) : c \in ErrorCodes \cup {HTTP_OK}}
    \cup {NetResponse(HTTP_OK, TRUE, b) : b \in LoopBodies}

(***************************************************************************)
(* State                                                                   *)
(***************************************************************************)

VARIABLES
    env,                      \* the three credentials, read at import
    pc,                       \* where main is
    timestamp,                \* main's timestamp
    previous_error_message,   \* main's previous_error_message
    bot_log,                  \* what the startup logged as critical
    \* history of the cycle in progress
    net,                      \* the network's answer in this cycle
    error,                    \* the exception the try block raised
    sent,                     \* the calls of send_message, in order
    ts_start,                 \* timestamp when the cycle began
    slept,                    \* seconds spent in time.sleep
    gets,                     \* GETs issued
    pending,                  \* an exception on its way out of the loop
    prev,                     \* the cycle before: did it run, fail, notify
    \* a helper function called on its own
    arg,
    res

vars == <<env, pc, timestamp, previous_error_message, bot_log, net, error,
          sent, ts_start, slept, gets, pending, prev, arg, res>>

loopvars == <<net, error, sent, ts_start, slept, gets, pending, prev>>

\* The messages among calls that went out.
Delivered(calls) == SelectSeq(calls, LAMBDA c : c.delivered)

NoPrev == [ran |-> FALSE, failed |-> FALSE, message |-> PyNone, sends |-> 0,
           delivered |-> 0]

InitLoopHistory ==
    /\ net = NetFail
    /\ error = NoError
    /\ sent = <<>>
    /\ ts_start = 0
    /\ slept = 0
    /\ gets = 0
    /\ pending = NoExc
    /\ prev = NoPrev

Init ==
    /\ env \in Environments
    /\ pc = "start"
    /\ timestamp = 0
    /\ previous_error_message = PyNone
    /\ bot_log = PyNone
    /\ InitLoopHistory
    /\ arg = <<>>
    /\ res = <<>>

(***************************************************************************)
(* main                                                                    *)
(***************************************************************************)

InLoop == pc \in {"try", "except", "finally"}

\* check_tokens, the early return, and the two assignments before the loop.
\* Constructing the bot (telegram.Bot) sends nothing and changes nothing
\* main reads later.
Start ==
    /\ pc = "start"
    /\ LET checked == check_tokens(env)
       IN  IF checked.exc = "NoEnvVarError"
           THEN /\ bot_log' = checked.args
                /\ pc' = "returned"
                /\ UNCHANGED <<timestamp, previous_error_message>>
           ELSE /\ \E now \in StartClocks : timestamp' = now - RETRY_PERIOD
                /\ previous_error_message' = PyNone
                /\ pc' = "try"
                /\ UNCHANGED bot_log
    /\ UNCHANGED <<env, loopvars, arg, res>>

\* The try block of one cycle.
Try ==
    /\ pc = "try"
    /\ \E response \in LoopNet, tg \in TG_OUTCOMES :
         LET out == TryBody(timestamp, response, tg)
         IN  /\ net' = response
             /\ error' = [exc |-> out.exc, args |-> out.args]
             /\ sent' = out.sent
             /\ gets' = out.gets
             /\ timestamp' = out.timestamp
             /\ pc' = IF out.exc # NoExc THEN "except" ELSE "finally"
    /\ ts_start' = timestamp
    /\ slept' = 0
    /\ UNCHANGED <<env, previous_error_message, bot_log, pending, prev, arg,
                   res>>

\* The except block.
Except ==
    /\ pc = "except"
    /\ \E tg \in TG_OUTCOMES :
         LET out == ExceptHandler(error, previous_error_message, tg)
         IN  /\ sent' = sent \o out.sent
             /\ previous_error_message' = out.previous
             /\ pending' = out.exc
    /\ pc' = "finally"
    /\ UNCHANGED <<env, timestamp, bot_log, net, error, ts_start, slept, gets,
                   prev, arg, res>>

\* The finally block: sleep, then the next cycle, unless an exception is
\* on its way out of the handler.  The history of the cycle that ends here
\* moves to prev.
Finally ==
    /\ pc = "finally"
    /\ slept' = slept + RETRY_PERIOD
    /\ pc' = IF pending # NoExc THEN "crashed" ELSE "try"
    /\ prev' = [ran |-> TRUE,
                failed |-> error.exc # NoExc,
                message |-> IF error.exc # NoExc THEN ErrorMessage(error)
                            ELSE PyNone,
                sends |-> Len(sent),
                delivered |-> Len(Delivered(sent))]
    /\ net' = NetFail
    /\ error' = NoError
    /\ sent' = <<>>
    /\ gets' = 0
    /\ ts_start' = 0
    /\ UNCHANGED <<env, timestamp, previous_error_message, bot_log, pending,
                   arg, res>>

Next == Start \/ Try \/ Except \/ Finally

Spec == Init /\ [][Next]_vars

\* The loop is sequential and each of its blocking calls returns: the GET
\* has a timeout, the sleep is finite.
FairSpec == Spec /\ WF_vars(Next)

(***************************************************************************)
(* The helper functions called on their own                                *)
(***************************************************************************)

\* main is not running.
Idle ==
    /\ env = [n \in {ENV_NAMES[i] : i \in 1..Len(ENV_NAMES)} |-> "secret"]
    /\ timestamp = 0
    /\ previous_error_message = PyNone
    /\ bot_log = PyNone
    /\ InitLoopHistory

mainvars == <<env, timestamp, previous_error_message, bot_log, loopvars>>

\* get_api_answer: any status code of a response, with a body that decodes
\* or not, or no response at all; and what a second GET would be answered.
StatusCodes == {200, 201, 204, 301, 400, 401, 403, 404, 429, 500, 503}

ApiBodies ==
    {BodyOther("list"),
     BodyDict({}, HwOther("absent"), 0),
     BodyDict(BothBodyKeys,
              HwList(<<HomeworkDict(BothHomeworkKeys, JVal("str", "approved"),
                                    "hw1")>>), 1000)}

FirstAnswers ==
    {NetFail}
    \cup {NetResponse(c, FALSE, NoBody) : c \in StatusCodes}
    \cup {NetResponse(c, TRUE, b) : c \in StatusCodes, b \in ApiBodies}

SecondAnswers ==
    {NetFail, NetResponse(HTTP_OK, TRUE, BodyDict({}, HwOther("absent"), 0))}

ApiInputs ==
    [timestamp : {900, 1000}, net : {<<a, b>> : a \in FirstAnswers,
                                                b \in SecondAnswers}]

InitGetApiAnswer ==
    /\ pc = "call"
    /\ arg \in ApiInputs
    /\ res = <<>>
    /\ Idle

CallGetApiAnswer ==
    /\ pc = "call"
    /\ res' = Append(res, get_api_answer(arg.timestamp, arg.net))
    /\ pc' = "done"
    /\ UNCHANGED <<arg, mainvars>>

SpecGetApiAnswer == InitGetApiAnswer /\ [][CallGetApiAnswer]_vars

\* check_response: every body.
InitCheckResponse ==
    /\ pc = "call"
    /\ arg \in Bodies \cup {BodyOther("str"), BodyOther("NoneType")}
    /\ res = <<>>
    /\ Idle

CallCheckResponse ==
    /\ pc = "call"
    /\ res' = Append(res, check_response(arg))
    /\ pc' = "done"
    /\ UNCHANGED <<arg, mainvars>>

SpecCheckResponse == InitCheckResponse /\ [][CallCheckResponse]_vars

\* parse_status: None, values that are no dict, and dicts with any of the
\* two keys, any JSON value as status and a few names.  It is called twice
\* on the same argument.
StatusValues ==
    {JVal("str", st) : st \in {"approved", "reviewing", "rejected",
                               "unknown", ""}}
    \cup {JVal("NoneType", "None"), JVal("int", "0"), JVal("list", "[]"),
          JVal("dict", "{}")}

HomeworkNames == {"hw1", "hw2", "X"}

HomeworkInputs ==
    {HomeworkNone, HomeworkOther("str"), HomeworkOther("list"),
     HomeworkOther("int")}
    \cup {HomeworkDict({}, NoStatus, "")}
    \cup {HomeworkDict({STATUS_KEY}, st, "") : st \in StatusValues}
    \cup {HomeworkDict({HOMEWORK_NAME}, NoStatus, nm) : nm \in HomeworkNames}
    \cup {HomeworkDict(BothHomeworkKeys, st, nm) :
            st \in StatusValues, nm \in HomeworkNames}

InitParseStatus ==
    /\ pc = "call"
    /\ arg \in HomeworkInputs
    /\ res = <<>>
    /\ Idle

CallParseStatus ==
    /\ pc = "call"
    /\ res' = Append(res, parse_status(arg))
    /\ pc' = IF Len(res) = 1 THEN "done" ELSE "call"
    /\ UNCHANGED <<arg, mainvars>>

SpecParseStatus == InitParseStatus /\ [][CallParseStatus]_vars

(***************************************************************************)
(* Properties                                                              *)
(***************************************************************************)

EnvNameSet == {ENV_NAMES[i] : i \in 1..Len(ENV_NAMES)}
Parts(message) == {message[i] : i \in 1..Len(message)}
Texts(calls) == [i \in 1..Len(calls) |-> calls[i].text]

\* The try and except blocks of the cycle are over; the sleep is next.
CycleOver == pc = "finally"
CycleFailed == error.exc # NoExc

\* The network's answer of this cycle passes get_api_answer and
\* check_response.
ValidResponse ==
    /\ net.transport_ok
    /\ net.status_code = 200
    /\ net.is_json
    /\ net.body.type = "dict"
    /\ {"homeworks", "current_date"} \subseteq net.body.keys
    /\ net.body.homeworks.type = "list"

\* C1: of two consecutive cycles that fail with the identical formatted
\* error message, only the first calls send_message: the two cycles make
\* one notification together.
C1_RepeatedFailureNotRenotified ==
    (/\ CycleOver
     /\ CycleFailed
     /\ prev.ran
     /\ prev.failed
     /\ prev.message = ErrorMessage(error))
    => (prev.sends = 1 /\ Len(sent) = 0)

\* Fetch, validation and formatting of this cycle raised nothing.
C2_FetchValidateFormatSucceeded ==
    LET api_response == get_api_answer(ts_start, <<net>>)
        checked_response == check_response(api_response.value)
        homeworks == checked_response.value.homeworks.items
    IN  /\ api_response.exc = NoExc
        /\ checked_response.exc = NoExc
        /\ Len(homeworks) > 0 => parse_status(homeworks[1]).exc = NoExc

\* C2: when the try and except blocks of a cycle are over, timestamp is the
\* current_date of the response if get_api_answer, check_response and (for a
\* non-empty list) parse_status succeeded, also when the send failed, and is
\* what it was at the start of the cycle otherwise; the sleep that ends the
\* cycle leaves it alone.
C2_CursorUpdate ==
    /\ [](CycleOver =>
            IF C2_FetchValidateFormatSucceeded
            THEN timestamp = net.body.current_date
            ELSE timestamp = ts_start)
    /\ [][(pc \in {"except", "finally"}) => (timestamp' = timestamp)]_vars

\* C2 witness: a cycle whose send failed and whose cursor moved all the same.
C2_Witness ==
    /\ CycleOver
    /\ ~CycleFailed
    /\ Len(sent) = 1
    /\ ~sent[1].delivered
    /\ ts_start = 900
    /\ timestamp = 1001

\* The credentials os.getenv found unset.
C3_Absent == {n \in EnvNameSet : env[n] = Unset}

\* C3: with a non-empty set of absent credentials main has returned, the
\* one message logged names exactly the absent variables, and nothing was
\* fetched or sent; with none absent check_tokens returned True and the
\* poll loop runs.
C3_MissingCredentials ==
    pc # "start" =>
        IF C3_Absent # {}
        THEN /\ pc = "returned"
             /\ check_tokens(env).exc = "NoEnvVarError"
             /\ Parts(bot_log) \cap EnvNameSet = C3_Absent
             /\ gets = 0
             /\ sent = <<>>
             /\ prev = NoPrev
        ELSE /\ check_tokens(env) = Return(TRUE)
             /\ InLoop
             /\ bot_log = PyNone

\* C3 witness: two credentials absent and the third an empty string.
C3_Witness ==
    /\ pc = "returned"
    /\ C3_Absent = {"PRACTICUM_TOKEN", "TELEGRAM_CHAT_ID"}
    /\ env["TELEGRAM_TOKEN"] = ""
    /\ Len(bot_log) = 5

\* C4: while the poll loop runs, the three credentials are non-empty
\* strings.
C4_CredentialsNonEmpty ==
    InLoop => \A n \in EnvNameSet : env[n] \notin {Unset, ""}

\* C5: no exception leaves the loop; every cycle, however it went, sleeps
\* once for RETRY_PERIOD (600 s), after its try and except blocks, and is
\* followed by a cycle that calls get_api_answer.
C5_LoopNeverStops ==
    /\ [](pc # "crashed")
    /\ [](pc \in {"except", "finally"} => slept = 0)
    /\ [][pc = "finally" => (pc' = "try" /\ slept' = 600)]_vars
    /\ [][(pc' = "try") => (pc \in {"start", "finally"})]_vars
    /\ (pc = "finally") ~> (pc = "try" /\ slept = 600)
    /\ (pc = "try") ~> (gets = 1 /\ slept = 0)

\* C5 witness: the cycle after one whose error notification was not
\* delivered has fetched.
C5_Witness ==
    /\ pc \in {"except", "finally"}
    /\ gets = 1
    /\ prev.ran
    /\ prev.failed
    /\ prev.sends = 1
    /\ prev.delivered = 0

\* C6: get_api_answer issues one GET and maps its outcome: no response ->
\* APIRequestException; 401 or 403 -> InvalidPracticumTokenError; 400 ->
\* TimestampArgumentTypeError; another code but 200 -> APIUrlResponseError;
\* 200 and a body that is no JSON -> APIResponseJSONDecodeError; 200 and
\* JSON -> the decoded value.
C6_GetApiAnswerMapping ==
    pc = "done" =>
        LET r == res[1]
            first == arg.net[1]
            code == first.status_code
        IN  /\ r.gets = 1
            /\ r.exc =
                 (IF ~first.transport_ok THEN "APIRequestException"
                  ELSE IF code = 401 \/ code = 403
                       THEN "InvalidPracticumTokenError"
                  ELSE IF code = 400 THEN "TimestampArgumentTypeError"
                  ELSE IF code # 200 THEN "APIUrlResponseError"
                  ELSE IF ~first.is_json THEN "APIResponseJSONDecodeError"
                  ELSE NoExc)
            /\ r.exc = NoExc => r.value = first.body

\* C6 witness: a 403 answered with the invalid-token error.
C6_Witness ==
    /\ pc = "done"
    /\ arg.net[1].transport_ok
    /\ arg.net[1].status_code = 403
    /\ arg.net[2].transport_ok
    /\ res[1].exc = "InvalidPracticumTokenError"

\* C7: check_response raises ResponseArgumentTypeError for what is no dict;
\* else KeyError if homeworks or current_date is absent (the missing
\* current_date is reported also when homeworks is no list); else
\* HomeworksFieldTypeError if homeworks is no list; else it returns its
\* input.  It accepts exactly the dicts with both keys and a list.
C7_CheckResponse ==
    pc = "done" =>
        LET r == res[1]
            has(k) == k \in arg.keys
            wellformed == /\ arg.type = "dict"
                          /\ has("homeworks")
                          /\ has("current_date")
                          /\ arg.homeworks.type = "list"
        IN  /\ r.exc =
                 (IF arg.type # "dict" THEN "ResponseArgumentTypeError"
                  ELSE IF ~has("homeworks") \/ ~has("current_date")
                       THEN "KeyError"
                  ELSE IF arg.homeworks.type # "list"
                       THEN "HomeworksFieldTypeError"
                  ELSE NoExc)
            /\ (arg.type = "dict" /\ has("homeworks") /\ ~has("current_date"))
                 => "current_date" \in Parts(r.args)
            /\ (arg.type = "dict" /\ ~has("homeworks"))
                 => "homeworks" \in Parts(r.args)
            /\ (r.exc = NoExc) <=> wellformed
            /\ wellformed => r.value = arg

\* C7 witness: homeworks is no list and current_date is missing.
C7_Witness ==
    /\ pc = "done"
    /\ arg.type = "dict"
    /\ arg.keys = {"homeworks"}
    /\ arg.homeworks.type = "dict"
    /\ res[1].exc = "KeyError"

\* The status of the argument is a key of the verdict table.
C8_KnownStatus ==
    /\ arg.status.type = "str"
    /\ arg.status.s \in {"approved", "reviewing", "rejected"}

\* C8: parse_status checks in a fixed order: None -> the 'nothing new'
\* message; no dict -> HomeworkArgumentTypeError; no status -> KeyError; a
\* status outside {approved, reviewing, rejected} ->
\* UnexpectedHomeworkStatusError, also without a name; no homework_name ->
\* KeyError; else a message with the name and the verdict of the status.
\* Two calls on the same record give the same output.
C8_ParseStatusOrder ==
    pc = "done" =>
        LET r == res[1]
            has(k) == k \in arg.keys
        IN  /\ res[2] = res[1]
            /\ r.exc =
                 (IF arg.type = "NoneType" THEN NoExc
                  ELSE IF arg.type # "dict" THEN "HomeworkArgumentTypeError"
                  ELSE IF ~has("status") THEN "KeyError"
                  ELSE IF ~C8_KnownStatus THEN "UnexpectedHomeworkStatusError"
                  ELSE IF ~has("homework_name") THEN "KeyError"
                  ELSE NoExc)
            /\ arg.type = "NoneType" => r.value = NOTHING_NEW
            /\ (r.exc = NoExc /\ arg.type = "dict") =>
                 /\ arg.homework_name \in Parts(r.value)
                 /\ HOMEWORK_VERDICTS[arg.status.s] \in Parts(r.value)

\* C9: a cycle calls send_message at most once; for a valid response with
\* a non-empty list the message is that of parse_status(homeworks[0]), and
\* what is sent and where the cursor ends depend on homeworks[0] and
\* current_date alone; for a valid response with an empty list nothing is
\* sent and the cursor advances.
C9_SingleCandidate ==
    CycleOver =>
        LET homeworks == net.body.homeworks.items
        IN  /\ Len(sent) <= 1
            /\ (ValidResponse /\ Len(homeworks) > 0) =>
                 LET first == parse_status(homeworks[1])
                 IN  IF first.exc = NoExc
                     THEN /\ Texts(sent) = <<first.value>>
                          /\ timestamp = net.body.current_date
                     ELSE /\ Texts(sent) = <<ErrorMessage(first)>>
                          /\ timestamp = ts_start
            /\ (ValidResponse /\ Len(homeworks) = 0) =>
                 /\ sent = <<>>
                 /\ timestamp = net.body.current_date

\* C9 witness: rejected hw1 ahead of approved hw2, current_date 1000, at
\* cursor 900: one message about hw1, cursor 1000.
C9_Witness ==
    /\ CycleOver
    /\ ValidResponse
    /\ Len(net.body.homeworks.items) = 2
    /\ net.body.homeworks.items[1].homework_name = "hw1"
    /\ net.body.homeworks.items[1].status.s = "rejected"
    /\ net.body.homeworks.items[2].homework_name = "hw2"
    /\ net.body.current_date = 1000
    /\ ts_start = 900
    /\ Len(sent) = 1
    /\ "hw1" \in Parts(sent[1].text)
    /\ HOMEWORK_VERDICTS["rejected"] \in Parts(sent[1].text)
    /\ timestamp = 1000

\* C10: previous_error_message is None in every state of main, and every
\* failing cycle calls send_message with its error message, whatever the
\* cycle before did.
C10_MarkerNeverSet ==
    /\ previous_error_message = PyNone
    /\ (CycleOver /\ CycleFailed) => Texts(sent) = <<ErrorMessage(error)>>

\* C10 witness: a failure notified again right after a cycle that failed
\* with the same message and notified it.
C10_Witness ==
    /\ CycleOver
    /\ CycleFailed
    /\ prev.failed
    /\ prev.sends = 1
    /\ prev.message = ErrorMessage(error)
    /\ Texts(sent) = <<prev.message>>

====
